---- MODULE Spec2Model ----
(***************************************************************************)
(* Model of UFMysqlDatabase (UF-typescript): one adapter instance that     *)
(* owns a single mysql2 connection, used by asynchronous callers.  Every   *)
(* `await` of the source is a point where the caller is suspended and any  *)
(* other caller may run; an action of this model is the code that runs     *)
(* between two such points.                                                *)
(***************************************************************************)
EXTENDS Integers, Sequences, FiniteSets, TLC

\* ---------------------------------------------------------------- bounds
\* number of connections the driver hands out before createConnection can
\* only fail
MaxConn == 3
\* number of statements a transaction callback issues at most
MaxStmts == 1
\* number of candidates getUniqueCode tries before the driver must answer
\* that the code is free
MaxAttempts == 2
\* number of characters of a sql template at most
MaxLen == 5
\* number of different values an application stores in a UFMapOfSet
MaxValues == 3
\* number of dates a caller passes to UFDate.max or UFDate.min at most
MaxDates == 3
\* length of the code generateCode is asked for at most
MaxCodeLen == 4
\* number of count queries a call of UFDatabase.getUniqueCode makes before
\* fieldAs must answer that the code is free
MaxQueries == 3

\* ------------------------------------------------------------ value sets
Tasks == {"t1", "t2"}
ConnIds == 1 .. MaxConn
\* connection parameters (host, database, user, password) a caller passes
ParamSets == {"paramsA"}
\* the query methods that are built on execute, and the description each
\* one passes to execute
Methods == {"rows", "row", "field", "insert", "update", "insertObject", "getUniqueCode"}
Description(m) ==
  CASE m = "insertObject" -> "insert"
    [] m = "getUniqueCode" -> "field"
    [] OTHER -> m
\* a statement: the sql text (a sequence of tokens) and the parameter values
Stmt(text, args) == [text |-> text, args |-> args]
\* the statements a caller passes to rows, row, field, insert and update
Sqls == {Stmt(<<"sqlA">>, <<>>)}
\* a property of an object
Prop(k, v) == [key |-> k, value |-> v]
\* the objects a caller passes to insertObject, as Object.entries lists them
Records == {<<Prop("id", 0), Prop("name", 5)>>, <<Prop("name", 5)>>}
PrimaryKeys == {"id"}
\* the codes UFText.generateCode can return
Candidates == {"codeA", "codeB"}
\* what the application passes to a query method
NoArg == [aData |-> <<>>, aPrimaryKey |-> "", sql |-> Stmt(<<>>, <<>>)]
Args(m) ==
  CASE m = "insertObject" -> {[NoArg EXCEPT !.aData = d, !.aPrimaryKey = k] : d \in Records, k \in PrimaryKeys}
    [] m = "getUniqueCode" -> {NoArg}
    [] OTHER -> {[NoArg EXCEPT !.sql = s] : s \in Sqls}

\* `null`
Null == 0
\* the private fields before init: m_host = m_database = m_user = m_password = ''
NoParams == "empty"

\* an Error object: thrown by `src`, as the answer to the at-th driver call of
\* the running call (every throw makes a new object)
Err(src, at) == [src |-> src, at |-> at]
\* new Error('There is no connection to the database.')
NotConnected == Err("adapter", 0)
NoErr == Err("none", 0)

\* the result sets the driver can answer a select with: rows of one column
RowSets == {<<>>, <<<<0>>>>, <<<<1>>, <<0>>>>}
\* the OkPacket the driver can answer an insert or update with
OkPackets == {[insertId |-> 0, changedRows |-> 0], [insertId |-> 7, changedRows |-> 1]}

VARIABLES
  m_connection,   \* the active connection (an id) or Null
  m_params,       \* m_host, m_database, m_user, m_password
  conns,          \* the driver's connections: id -> "none" | "open" | "closed"
  pc,             \* per caller: the await it is suspended at, or "idle"
  call,           \* per caller: the locals of the running call
  events,         \* per caller: driver calls its last call of execute (or init) has invoked
  outs,           \* per caller: what those driver calls answered
  log,            \* per caller: entries that call of execute (or init) sent to m_log
  result,         \* per caller: how its last call of execute ended
  txEvents,       \* per caller: driver calls and callback its last call of transaction has invoked
  txOuts,         \* per caller: what those answered
  outcome,        \* per caller: how its last call of a public method ended
  db              \* the running or last call of a method of UFDatabase: its arguments,
                  \* its locals, the calls it has made and how it ended

\* the state of the UFMysqlDatabase instance and of its callers
adapterVars == <<m_connection, m_params, conns, pc, call, events, outs, log, result, txEvents, txOuts, outcome>>
\* the state of the classes that do not use the adapter
libVars == <<db>>
vars == <<adapterVars, libVars>>

NoCall == [op |-> "none", method |-> "none", sql |-> Stmt(<<>>, <<>>), inTx |-> FALSE,
           stmts |-> 0, pending |-> NoErr, caught |-> NoErr, cbErr |-> NoErr,
           aData |-> <<>>, aPrimaryKey |-> "", code |-> "", attempts |-> 0]

\* no method of UFDatabase has been called
NoDb == [pc |-> "idle", op |-> "none"]

\* the adapter after construction
InitAdapter ==
  /\ m_connection = Null
  /\ m_params = NoParams
  /\ conns = [c \in ConnIds |-> "none"]
  /\ pc = [t \in Tasks |-> "idle"]
  /\ call = [t \in Tasks |-> NoCall]
  /\ events = [t \in Tasks |-> <<>>]
  /\ outs = [t \in Tasks |-> <<>>]
  /\ log = [t \in Tasks |-> <<>>]
  /\ result = [t \in Tasks |-> [kind |-> "none"]]
  /\ txEvents = [t \in Tasks |-> <<>>]
  /\ txOuts = [t \in Tasks |-> <<>>]
  /\ outcome = [t \in Tasks |-> [kind |-> "none"]]

Init ==
  /\ InitAdapter
  /\ db = NoDb

\* ------------------------------------------------------------- helpers
Last(s) == s[Len(s)]

\* the driver can still hand out a connection
CanCreate == \E c \in ConnIds : conns[c] = "none"
\* the id of the connection the driver hands out next
NextConn == CHOOSE c \in ConnIds : conns[c] = "none" /\ \A d \in ConnIds : d < c => conns[d] # "none"

\* a driver call as the adapter invokes it
Event(op, c, arg) == [op |-> op, conn |-> c, arg |-> arg]
\* what a driver call answered
Ok(v) == [ok |-> TRUE, val |-> v]
Failed(e) == [ok |-> FALSE, val |-> e]
\* an m_log call: level, error, text, context (description and statement)
LogEntry(level, e, text, ctx) == [level |-> level, err |-> e, text |-> text, ctx |-> ctx]

\* what the driver can answer a statement of the method with
DriverResults(m) == IF Description(m) \in {"insert", "update"} THEN OkPackets ELSE RowSets

\* `undefined`
Undefined == [undefined |-> TRUE]

\* UFText.append on texts that are sequences of tokens
append(aSource, aValue, aSeparator) ==
  IF Len(aSource) <= 0 THEN aValue
  ELSE IF Len(aValue) <= 0 THEN aSource
  ELSE aSource \o aSeparator \o aValue

\* the forEach of insertObject over the entries from the i-th on
RECURSIVE InsertParts(_, _, _, _)
InsertParts(entries, aPrimaryKey, i, acc) ==
  IF i > Len(entries) THEN acc
  ELSE IF entries[i].key # aPrimaryKey
       THEN InsertParts(entries, aPrimaryKey, i + 1,
              [columns |-> append(acc.columns, <<entries[i].key>>, <<",">>),
               values |-> append(acc.values, <<"?">>, <<",">>),
               data |-> Append(acc.data, entries[i].value)])
       ELSE InsertParts(entries, aPrimaryKey, i + 1, acc)

\* the statement insertObject passes to insert
InsertStatement(aTable, aData, aPrimaryKey) ==
  LET parts == InsertParts(aData, aPrimaryKey, 1, [columns |-> <<>>, values |-> <<>>, data |-> <<>>])
  IN Stmt(<<"insert into", aTable, "(">> \o parts.columns \o <<") values (">> \o parts.values \o <<")">>,
          parts.data)

\* the statement getUniqueCode passes to fieldAs
CodeStatement(aTable, aColumn, code) ==
  Stmt(<<"select count(*) from", aTable, "where", aColumn, "= ?">>, <<code>>)

\* anObject[k] = v
SetProperty(anObject, k, v) ==
  IF \E i \in 1 .. Len(anObject) : anObject[i].key = k
  THEN [i \in 1 .. Len(anObject) |-> IF anObject[i].key = k THEN Prop(k, v) ELSE anObject[i]]
  ELSE Append(anObject, Prop(k, v))

\* field that reads the last row
fieldLastRow(rows, aDefault) ==
  IF Len(rows) > 0 /\ Len(rows[Len(rows)]) > 0 THEN rows[Len(rows)][1] ELSE aDefault

\* field: the first column of the first row, or aDefault
field(rows, aDefault) ==
  IF Len(rows) > 0 /\ Len(rows[1]) > 0 THEN rows[1][1] ELSE aDefault

\* the object insertObject leaves once insert has returned id
InsertedObject(aData, aPrimaryKey, id) ==
  IF id > 0 THEN SetProperty(aData, aPrimaryKey, id) ELSE aData

\* what the query method returns once execute has returned r
Post(c, r) ==
  CASE c.method = "rows" -> r
    [] c.method = "row" -> IF Len(r) > 0 THEN r[1] ELSE Undefined
    [] c.method = "field" -> field(r, Undefined)
    [] c.method = "insert" -> r.insertId
    [] c.method = "update" -> r.changedRows
    [] c.method = "insertObject" -> InsertedObject(c.aData, c.aPrimaryKey, r.insertId)
    [] c.method = "getUniqueCode" -> c.code

\* getUniqueCode goes round its loop once more when the count is not 0
Loops(c, r) == c.method = "getUniqueCode" /\ field(r, 0) # 0

\* the caller starts a new call: what the previous call left is dropped
Fresh(t) == pc[t] = "idle"

\* the locals of query method m called with arguments a, up to its call of
\* execute; code is what UFText.generateCode returns
MethodLocals(c, m, a, code) ==
  [c EXCEPT !.method = m,
            !.aData = a.aData,
            !.aPrimaryKey = a.aPrimaryKey,
            !.code = IF m = "getUniqueCode" THEN code ELSE "",
            !.attempts = IF m = "getUniqueCode" THEN 1 ELSE 0,
            !.sql = CASE m = "insertObject" -> InsertStatement("tableA", a.aData, a.aPrimaryKey)
                      [] m = "getUniqueCode" -> CodeStatement("tableA", "columnA", code)
                      [] OTHER -> a.sql]

\* the running execute ends with `return r` and the query method goes on
\* from there: it returns to the application or to the transaction callback
\* that awaited it, or (getUniqueCode) calls execute with the next candidate
ReturnTo(t, r) ==
  IF Loops(call[t], r)
  THEN \E code \in Candidates :
       /\ call[t].attempts < MaxAttempts
       /\ call' = [call EXCEPT ![t].code = code, ![t].attempts = @ + 1,
                               ![t].sql = CodeStatement("tableA", "columnA", code)]
       /\ events' = [events EXCEPT ![t] =
                       <<Event("execute", m_connection, CodeStatement("tableA", "columnA", code))>>]
       /\ outs' = [outs EXCEPT ![t] = <<>>]
       /\ log' = [log EXCEPT ![t] = <<>>]
       /\ result' = [result EXCEPT ![t] = [kind |-> "none"]]
       /\ pc' = [pc EXCEPT ![t] = "try1"]
       /\ UNCHANGED outcome
  ELSE /\ events' = events
       /\ outs' = [outs EXCEPT ![t] = Append(@, Ok(r))]
       /\ log' = log
       /\ result' = [result EXCEPT ![t] = [kind |-> "returned", value |-> r]]
       /\ IF call[t].inTx
          THEN /\ pc' = [pc EXCEPT ![t] = "callback"]
               /\ call' = [call EXCEPT ![t].method = "none", ![t].pending = NoErr,
                                       ![t].aData = IF call[t].method = "insertObject"
                                                    THEN Post(call[t], r) ELSE @]
               /\ UNCHANGED outcome
          ELSE /\ pc' = [pc EXCEPT ![t] = "idle"]
               /\ call' = [call EXCEPT ![t].aData = IF call[t].method = "insertObject"
                                                    THEN Post(call[t], r) ELSE @]
               /\ outcome' = [outcome EXCEPT ![t] = [kind |-> "returned", value |-> Post(call[t], r)]]

\* the running execute ends with `throw e`; no query method catches it
RaiseTo(t, e) ==
  /\ result' = [result EXCEPT ![t] = [kind |-> "raised", value |-> e]]
  /\ IF call[t].inTx
     THEN /\ pc' = [pc EXCEPT ![t] = "callback"]
          /\ call' = [call EXCEPT ![t].method = "none", ![t].pending = e]
          /\ UNCHANGED outcome
     ELSE /\ pc' = [pc EXCEPT ![t] = "idle"]
          /\ outcome' = [outcome EXCEPT ![t] = [kind |-> "raised", value |-> e]]
          /\ UNCHANGED call

\* ------------------------------------------------------------------ init
\* init up to `await createConnection(...)`
InitCall(t, p) ==
  /\ Fresh(t)
  /\ m_params' = p
  /\ pc' = [pc EXCEPT ![t] = "init"]
  /\ call' = [call EXCEPT ![t] = [NoCall EXCEPT !.op = "init"]]
  /\ events' = [events EXCEPT ![t] = <<Event("createConnection", Null, p)>>]
  /\ outs' = [outs EXCEPT ![t] = <<>>]
  /\ log' = [log EXCEPT ![t] = <<>>]
  /\ result' = [result EXCEPT ![t] = [kind |-> "none"]]
  /\ txEvents' = [txEvents EXCEPT ![t] = <<>>]
  /\ txOuts' = [txOuts EXCEPT ![t] = <<>>]
  /\ outcome' = [outcome EXCEPT ![t] = [kind |-> "none"]]
  /\ UNCHANGED <<m_connection, conns>>
  /\ UNCHANGED libVars

\* init from the answer of createConnection
InitResume(t) ==
  /\ pc[t] = "init"
  /\ \/ /\ CanCreate
        /\ conns' = [conns EXCEPT ![NextConn] = "open"]
        /\ m_connection' = NextConn
        /\ outs' = [outs EXCEPT ![t] = Append(@, Ok(NextConn))]
        /\ log' = [log EXCEPT ![t] = Append(@, LogEntry("info", NoErr, "connected to database", <<>>))]
        /\ outcome' = [outcome EXCEPT ![t] = [kind |-> "returned", value |-> Undefined]]
     \/ LET at == Len(events[t]) IN
        /\ outs' = [outs EXCEPT ![t] = Append(@, Failed(Err("createConnection", at)))]
        /\ outcome' = [outcome EXCEPT ![t] = [kind |-> "raised", value |-> Err("createConnection", at)]]
        /\ UNCHANGED <<conns, m_connection, log>>
  /\ pc' = [pc EXCEPT ![t] = "idle"]
  /\ UNCHANGED <<m_params, call, events, result, txEvents, txOuts>>
  /\ UNCHANGED libVars

\* --------------------------------------------------------------- execute
\* QueryCall that connects by itself when there is no connection yet
QueryCallLazy(t, m, a, code) ==
  LET c == MethodLocals([NoCall EXCEPT !.op = m], m, a, code) IN
  /\ Fresh(t)
  /\ call' = [call EXCEPT ![t] = c]
  /\ outs' = [outs EXCEPT ![t] = <<>>]
  /\ log' = [log EXCEPT ![t] = <<>>]
  /\ txEvents' = [txEvents EXCEPT ![t] = <<>>]
  /\ txOuts' = [txOuts EXCEPT ![t] = <<>>]
  /\ outcome' = [outcome EXCEPT ![t] = [kind |-> "none"]]
  /\ result' = [result EXCEPT ![t] = [kind |-> "none"]]
  /\ IF m_connection = Null
     THEN /\ events' = [events EXCEPT ![t] = <<Event("createConnection", Null, m_params)>>]
          /\ pc' = [pc EXCEPT ![t] = "connect"]
     ELSE /\ events' = [events EXCEPT ![t] = <<Event("execute", m_connection, c.sql)>>]
          /\ pc' = [pc EXCEPT ![t] = "try1"]
  /\ UNCHANGED <<m_connection, m_params, conns>>
  /\ UNCHANGED libVars

\* a query method called by the application, up to the first
\* `await this.m_connection.execute(...)` of execute
QueryCall(t, m, a, code) ==
  LET c == MethodLocals([NoCall EXCEPT !.op = m], m, a, code) IN
  /\ Fresh(t)
  /\ call' = [call EXCEPT ![t] = c]
  /\ outs' = [outs EXCEPT ![t] = <<>>]
  /\ log' = [log EXCEPT ![t] = <<>>]
  /\ txEvents' = [txEvents EXCEPT ![t] = <<>>]
  /\ txOuts' = [txOuts EXCEPT ![t] = <<>>]
  /\ IF m_connection = Null
     THEN /\ outcome' = [outcome EXCEPT ![t] = [kind |-> "raised", value |-> NotConnected]]
          /\ result' = [result EXCEPT ![t] = [kind |-> "raised", value |-> NotConnected]]
          /\ events' = [events EXCEPT ![t] = <<>>]
          /\ UNCHANGED pc
     ELSE /\ outcome' = [outcome EXCEPT ![t] = [kind |-> "none"]]
          /\ result' = [result EXCEPT ![t] = [kind |-> "none"]]
          /\ events' = [events EXCEPT ![t] = <<Event("execute", m_connection, c.sql)>>]
          /\ pc' = [pc EXCEPT ![t] = "try1"]
  /\ UNCHANGED <<m_connection, m_params, conns>>
  /\ UNCHANGED libVars

\* Try1Resume that reconnects without closing the connection first
Try1ResumeNoEnd(t) ==
  /\ pc[t] = "try1"
  /\ \/ \E r \in DriverResults(call[t].method) :
        /\ conns[Last(events[t]).conn] = "open"
        /\ ReturnTo(t, r)
     \/ LET at == Len(events[t]) IN
        /\ outs' = [outs EXCEPT ![t] = Append(@, Failed(Err("execute", at)))]
        /\ log' = [log EXCEPT ![t] = Append(@, LogEntry("error", Err("execute", at), "", <<>>))]
        /\ events' = [events EXCEPT ![t] = Append(@, Event("createConnection", Null, m_params))]
        /\ pc' = [pc EXCEPT ![t] = "connect"]
        /\ UNCHANGED <<call, result, outcome>>
  /\ UNCHANGED <<m_connection, m_params, conns, txEvents, txOuts>>
  /\ UNCHANGED libVars

\* execute from the answer of the first attempt: `return rows`, or the catch
\* block and on to `await this.m_connection.end()`
Try1Resume(t) ==
  /\ pc[t] = "try1"
  /\ \/ \E r \in DriverResults(call[t].method) :
        /\ conns[Last(events[t]).conn] = "open"
        /\ ReturnTo(t, r)
     \/ LET at == Len(events[t]) IN
        /\ outs' = [outs EXCEPT ![t] = Append(@, Failed(Err("execute", at)))]
        /\ log' = [log EXCEPT ![t] = Append(@, LogEntry("error", Err("execute", at), "", <<>>))]
        /\ events' = [events EXCEPT ![t] = Append(@, Event("end", m_connection, ""))]
        /\ pc' = [pc EXCEPT ![t] = "end"]
        /\ UNCHANGED <<call, result, outcome>>
  /\ UNCHANGED <<m_connection, m_params, conns, txEvents, txOuts>>
  /\ UNCHANGED libVars

\* EndResume that gives up when the connection cannot be closed
EndResumeAbort(t) ==
  /\ pc[t] = "end"
  /\ \/ /\ conns' = [conns EXCEPT ![Last(events[t]).conn] = "closed"]
        /\ outs' = [outs EXCEPT ![t] = Append(@, Ok(Undefined))]
        /\ events' = [events EXCEPT ![t] = Append(@, Event("createConnection", Null, m_params))]
        /\ pc' = [pc EXCEPT ![t] = "connect"]
        /\ UNCHANGED <<log, call, result, outcome>>
     \/ LET at == Len(events[t]) IN
        /\ outs' = [outs EXCEPT ![t] = Append(@, Failed(Err("end", at)))]
        /\ log' = [log EXCEPT ![t] = Append(@, LogEntry("error", Err("end", at), "ending connection", <<>>))]
        /\ RaiseTo(t, Err("end", at))
        /\ UNCHANGED <<conns, events>>
  /\ UNCHANGED <<m_connection, m_params, txEvents, txOuts>>
  /\ UNCHANGED libVars

\* execute from the answer of end up to `await createConnection(...)`
EndResume(t) ==
  /\ pc[t] = "end"
  /\ \/ /\ conns' = [conns EXCEPT ![Last(events[t]).conn] = "closed"]
        /\ outs' = [outs EXCEPT ![t] = Append(@, Ok(Undefined))]
        /\ UNCHANGED log
     \/ LET at == Len(events[t]) IN
        /\ outs' = [outs EXCEPT ![t] = Append(@, Failed(Err("end", at)))]
        /\ log' = [log EXCEPT ![t] = Append(@, LogEntry("error", Err("end", at), "ending connection", <<>>))]
        /\ UNCHANGED conns
  /\ events' = [events EXCEPT ![t] = Append(@, Event("createConnection", Null, m_params))]
  /\ pc' = [pc EXCEPT ![t] = "connect"]
  /\ UNCHANGED <<m_connection, m_params, call, result, txEvents, txOuts, outcome>>
  /\ UNCHANGED libVars

\* ConnectResume that throws the error of the first attempt when it cannot
\* reconnect
ConnectResumeOriginal(t) ==
  /\ pc[t] = "connect"
  /\ \/ /\ CanCreate
        /\ conns' = [conns EXCEPT ![NextConn] = "open"]
        /\ m_connection' = NextConn
        /\ outs' = [outs EXCEPT ![t] = Append(@, Ok(NextConn))]
        /\ log' = [log EXCEPT ![t] = Append(@, LogEntry("info", NoErr, "reconnected to database", <<>>))]
        /\ events' = [events EXCEPT ![t] = Append(@, Event("execute", NextConn, call[t].sql))]
        /\ pc' = [pc EXCEPT ![t] = "try2"]
        /\ UNCHANGED <<call, result, outcome>>
     \/ LET at == Len(events[t]) IN
        /\ outs' = [outs EXCEPT ![t] = Append(@, Failed(Err("createConnection", at)))]
        /\ log' = [log EXCEPT ![t] = Append(@, LogEntry("error", Err("createConnection", at), "reconnecting",
                                                         <<Description(call[t].method), call[t].sql>>))]
        /\ RaiseTo(t, outs[t][1].val)
        /\ UNCHANGED <<conns, m_connection, events>>
  /\ UNCHANGED <<m_params, txEvents, txOuts>>
  /\ UNCHANGED libVars

\* execute from the answer of createConnection: the catch block, or on to
\* the second `await this.m_connection.execute(...)`
ConnectResume(t) ==
  /\ pc[t] = "connect"
  /\ \/ /\ CanCreate
        /\ conns' = [conns EXCEPT ![NextConn] = "open"]
        /\ m_connection' = NextConn
        /\ outs' = [outs EXCEPT ![t] = Append(@, Ok(NextConn))]
        /\ log' = [log EXCEPT ![t] = Append(@, LogEntry("info", NoErr, "reconnected to database", <<>>))]
        /\ events' = [events EXCEPT ![t] = Append(@, Event("execute", NextConn, call[t].sql))]
        /\ pc' = [pc EXCEPT ![t] = "try2"]
        /\ UNCHANGED <<call, result, outcome>>
     \/ LET at == Len(events[t]) IN
        /\ outs' = [outs EXCEPT ![t] = Append(@, Failed(Err("createConnection", at)))]
        /\ log' = [log EXCEPT ![t] = Append(@, LogEntry("error", Err("createConnection", at), "reconnecting",
                                                         <<Description(call[t].method), call[t].sql>>))]
        /\ RaiseTo(t, Err("createConnection", at))
        /\ UNCHANGED <<conns, m_connection, events>>
  /\ UNCHANGED <<m_params, txEvents, txOuts>>
  /\ UNCHANGED libVars

\* Try2Resume that closes and reconnects again when the second attempt fails
Try2ResumeRetry(t) ==
  /\ pc[t] = "try2"
  /\ \/ \E r \in DriverResults(call[t].method) :
        /\ conns[Last(events[t]).conn] = "open"
        /\ ReturnTo(t, r)
     \/ LET at == Len(events[t]) IN
        /\ Len(events[t]) < 3 * MaxConn
        /\ outs' = [outs EXCEPT ![t] = Append(@, Failed(Err("execute", at)))]
        /\ log' = [log EXCEPT ![t] = Append(@, LogEntry("error", Err("execute", at), "", <<>>))]
        /\ events' = [events EXCEPT ![t] = Append(@, Event("end", m_connection, ""))]
        /\ pc' = [pc EXCEPT ![t] = "end"]
        /\ UNCHANGED <<call, result, outcome>>
  /\ UNCHANGED <<m_connection, m_params, conns, txEvents, txOuts>>
  /\ UNCHANGED libVars

\* execute from the answer of the second attempt
Try2Resume(t) ==
  /\ pc[t] = "try2"
  /\ \/ \E r \in DriverResults(call[t].method) :
        /\ conns[Last(events[t]).conn] = "open"
        /\ ReturnTo(t, r)
     \/ LET at == Len(events[t]) IN
        /\ outs' = [outs EXCEPT ![t] = Append(@, Failed(Err("execute", at)))]
        /\ log' = [log EXCEPT ![t] = Append(@, LogEntry("error", Err("execute", at), "",
                                                         <<Description(call[t].method), call[t].sql>>))]
        /\ RaiseTo(t, Err("execute", at))
        /\ UNCHANGED events
  /\ UNCHANGED <<m_connection, m_params, conns, txEvents, txOuts>>
  /\ UNCHANGED libVars

\* ----------------------------------------------------------- transaction
\* transaction up to `await this.m_connection.beginTransaction()`
TransactionCall(t) ==
  /\ Fresh(t)
  /\ call' = [call EXCEPT ![t] = [NoCall EXCEPT !.op = "transaction", !.inTx = TRUE]]
  /\ events' = [events EXCEPT ![t] = <<>>]
  /\ outs' = [outs EXCEPT ![t] = <<>>]
  /\ log' = [log EXCEPT ![t] = <<>>]
  /\ result' = [result EXCEPT ![t] = [kind |-> "none"]]
  /\ txOuts' = [txOuts EXCEPT ![t] = <<>>]
  /\ IF m_connection = Null
     THEN /\ outcome' = [outcome EXCEPT ![t] = [kind |-> "raised", value |-> NotConnected]]
          /\ txEvents' = [txEvents EXCEPT ![t] = <<>>]
          /\ UNCHANGED pc
     ELSE /\ outcome' = [outcome EXCEPT ![t] = [kind |-> "none"]]
          /\ txEvents' = [txEvents EXCEPT ![t] = <<Event("beginTransaction", m_connection, "")>>]
          /\ pc' = [pc EXCEPT ![t] = "begin"]
  /\ UNCHANGED <<m_connection, m_params, conns>>
  /\ UNCHANGED libVars

\* transaction from the answer of beginTransaction up to `await aCallback()`
BeginResume(t) ==
  /\ pc[t] = "begin"
  /\ \/ /\ conns[Last(txEvents[t]).conn] = "open"
        /\ txOuts' = [txOuts EXCEPT ![t] = Append(@, Ok(Undefined))]
        /\ txEvents' = [txEvents EXCEPT ![t] = Append(@, Event("callback", Null, ""))]
        /\ pc' = [pc EXCEPT ![t] = "callback"]
        /\ UNCHANGED outcome
     \/ LET at == Len(txEvents[t]) IN
        /\ txOuts' = [txOuts EXCEPT ![t] = Append(@, Failed(Err("beginTransaction", at)))]
        /\ outcome' = [outcome EXCEPT ![t] = [kind |-> "raised", value |-> Err("beginTransaction", at)]]
        /\ pc' = [pc EXCEPT ![t] = "idle"]
        /\ UNCHANGED txEvents
  /\ UNCHANGED <<m_connection, m_params, conns, call, events, outs, log, result>>
  /\ UNCHANGED libVars

\* the callback calls a query method of the adapter and awaits it
CallbackQuery(t, m, a, code) ==
  LET c == MethodLocals([call[t] EXCEPT !.stmts = @ + 1, !.pending = NoErr], m, a, code) IN
  /\ pc[t] = "callback"
  /\ call[t].stmts < MaxStmts
  /\ call' = [call EXCEPT ![t] = c]
  /\ events' = [events EXCEPT ![t] = <<Event("execute", m_connection, c.sql)>>]
  /\ outs' = [outs EXCEPT ![t] = <<>>]
  /\ log' = [log EXCEPT ![t] = <<>>]
  /\ result' = [result EXCEPT ![t] = [kind |-> "none"]]
  /\ pc' = [pc EXCEPT ![t] = "try1"]
  /\ UNCHANGED <<m_connection, m_params, conns, txEvents, txOuts, outcome>>
  /\ UNCHANGED libVars

\* the errors the callback can fail with: one of its own, or the one the
\* query method it awaited has raised
CallbackErrors(t) ==
  {Err("callback", Len(txEvents[t]))} \cup ({call[t].pending} \ {NoErr})

\* CallbackReturn of a transaction that forgets to commit
CallbackReturnNoCommit(t) ==
  /\ pc[t] = "callback"
  /\ txOuts' = [txOuts EXCEPT ![t] = Append(@, Ok(Undefined))]
  /\ outcome' = [outcome EXCEPT ![t] = [kind |-> "returned", value |-> Undefined]]
  /\ pc' = [pc EXCEPT ![t] = "idle"]
  /\ call' = [call EXCEPT ![t].pending = NoErr]
  /\ UNCHANGED <<m_connection, m_params, conns, events, outs, log, result, txEvents>>
  /\ UNCHANGED libVars

\* the callback returns: transaction up to `await this.m_connection.commit()`
CallbackReturn(t) ==
  /\ pc[t] = "callback"
  /\ txOuts' = [txOuts EXCEPT ![t] = Append(@, Ok(Undefined))]
  /\ txEvents' = [txEvents EXCEPT ![t] = Append(@, Event("commit", m_connection, ""))]
  /\ pc' = [pc EXCEPT ![t] = "commit"]
  /\ call' = [call EXCEPT ![t].pending = NoErr]
  /\ UNCHANGED <<m_connection, m_params, conns, events, outs, log, result, outcome>>
  /\ UNCHANGED libVars

\* the callback throws: the catch block of transaction up to
\* `await this.m_connection.rollback()`
CallbackThrow(t, e) ==
  /\ pc[t] = "callback"
  /\ e \in CallbackErrors(t)
  /\ txOuts' = [txOuts EXCEPT ![t] = Append(@, Failed(e))]
  /\ txEvents' = [txEvents EXCEPT ![t] = Append(@, Event("rollback", m_connection, ""))]
  /\ pc' = [pc EXCEPT ![t] = "rollback"]
  /\ call' = [call EXCEPT ![t].pending = NoErr, ![t].cbErr = e, ![t].caught = e]
  /\ UNCHANGED <<m_connection, m_params, conns, events, outs, log, result, outcome>>
  /\ UNCHANGED libVars

\* transaction from the answer of commit: the end of the try block, or the
\* catch block up to `await this.m_connection.rollback()`
CommitResume(t) ==
  /\ pc[t] = "commit"
  /\ \/ /\ conns[Last(txEvents[t]).conn] = "open"
        /\ txOuts' = [txOuts EXCEPT ![t] = Append(@, Ok(Undefined))]
        /\ outcome' = [outcome EXCEPT ![t] = [kind |-> "returned", value |-> Undefined]]
        /\ pc' = [pc EXCEPT ![t] = "idle"]
        /\ UNCHANGED <<txEvents, call>>
     \/ LET at == Len(txEvents[t]) IN
        /\ txOuts' = [txOuts EXCEPT ![t] = Append(@, Failed(Err("commit", at)))]
        /\ txEvents' = [txEvents EXCEPT ![t] = Append(@, Event("rollback", m_connection, ""))]
        /\ call' = [call EXCEPT ![t].caught = Err("commit", at)]
        /\ pc' = [pc EXCEPT ![t] = "rollback"]
        /\ UNCHANGED outcome
  /\ UNCHANGED <<m_connection, m_params, conns, events, outs, log, result>>
  /\ UNCHANGED libVars

\* what the catch block of transaction throws once rollback has answered
\* with `failure` (NoErr when rollback succeeded), having caught `caught`
RollbackRaises(caught, failure) == IF failure = NoErr THEN caught ELSE failure

\* transaction from the answer of rollback: `throw error`
RollbackResume(t) ==
  /\ pc[t] = "rollback"
  /\ \E failure \in {NoErr, Err("rollback", Len(txEvents[t]))} :
        /\ failure = NoErr => conns[Last(txEvents[t]).conn] = "open"
        /\ txOuts' = [txOuts EXCEPT ![t] = Append(@, IF failure = NoErr THEN Ok(Undefined) ELSE Failed(failure))]
        /\ outcome' = [outcome EXCEPT ![t] =
                         [kind |-> "raised", value |-> RollbackRaises(call[t].caught, failure)]]
  /\ pc' = [pc EXCEPT ![t] = "idle"]
  /\ UNCHANGED <<m_connection, m_params, conns, call, events, outs, log, result, txEvents>>
  /\ UNCHANGED libVars

\* ------------------------------------------------------------ UFDatabase
\* A text is a sequence of characters; positions are counted from 0, as the
\* source counts them.
\* the characters of the sql templates: a colon, word characters and a space
Alphabet == {":", "a", "_", "1", " "}
\* the characters /[\w\d_]/ matches
WordChars == {"a", "_", "1"}
\* the sql templates a caller passes to processSqlParameters
Templates == UNION {[1 .. n -> Alphabet] : n \in 0 .. MaxLen}
\* the parameter values a caller passes: objects with properties named by texts
ParameterBags == {<<>>, <<Prop(<<"a">>, 1)>>}
\* the callbacks a caller passes: one that answers '?', one that numbers its
\* answers ('$1', '$2', ...) and one that answers ':' + name
Callbacks == {"question", "numbered", "named"}
Digits == <<"1", "2", "3", "4", "5", "6", "7", "8", "9">>

\* aText.substring(aFrom, aTo) and aText.substring(aFrom)
substring(aText, aFrom, aTo) == SubSeq(aText, aFrom + 1, aTo)
substringFrom(aText, aFrom) == SubSeq(aText, aFrom + 1, Len(aText))

\* anObject[k], `undefined` when the object has no such property
GetProperty(anObject, k) ==
  IF \E i \in 1 .. Len(anObject) : anObject[i].key = k
  THEN anObject[CHOOSE i \in 1 .. Len(anObject) : anObject[i].key = k].value
  ELSE Undefined

\* where the run of word characters that starts at position i ends
RECURSIVE RunEnd(_, _)
RunEnd(aText, i) ==
  IF i < Len(aText) /\ aText[i + 1] \in WordChars THEN RunEnd(aText, i + 1) ELSE i

\* matchAll with /(:[\w\d_]*)/g: a colon alone is a match too
RECURSIVE matchAllBare(_, _)
matchAllBare(aSql, lastIndex) ==
  IF lastIndex >= Len(aSql) THEN <<>>
  ELSE IF aSql[lastIndex + 1] = ":"
       THEN LET end == RunEnd(aSql, lastIndex + 1)
            IN <<[index |-> lastIndex, text |-> substring(aSql, lastIndex, end)]>> \o matchAllBare(aSql, end)
       ELSE matchAllBare(aSql, lastIndex + 1)

\* aSql.matchAll(/(:[\w\d_]+)/g) from position lastIndex on: the matches
\* (index and matched text) from left to right, each as long as it can be,
\* the search for the next one starting where the last one ended
RECURSIVE matchAll(_, _)
matchAll(aSql, lastIndex) ==
  IF lastIndex + 1 >= Len(aSql) THEN <<>>
  ELSE IF aSql[lastIndex + 1] = ":" /\ aSql[lastIndex + 2] \in WordChars
       THEN LET end == RunEnd(aSql, lastIndex + 1)
            IN <<[index |-> lastIndex, text |-> substring(aSql, lastIndex, end)]>> \o matchAll(aSql, end)
       ELSE matchAll(aSql, lastIndex + 1)

\* what callback aCallback returns when it is called with a name and a value,
\* having been called n times before
CallbackResult(aCallback, aName, aValue, n) ==
  CASE aCallback = "question" -> <<"?">>
    [] aCallback = "numbered" -> <<"$", Digits[n + 1]>>
    [] aCallback = "named" -> <<":">> \o aName

\* ProcessMatches that goes on right after the colon of a match
RECURSIVE ProcessMatchesKeepName(_, _, _, _, _)
ProcessMatchesKeepName(aSql, aParameterValues, aCallback, matches, st) ==
  IF matches = <<>> THEN st
  ELSE LET match == Head(matches)
           currentName == substringFrom(match.text, 1)
           value == GetProperty(aParameterValues, currentName)
           newName == CallbackResult(aCallback, currentName, value, Len(st.calls))
       IN ProcessMatchesKeepName(aSql, aParameterValues, aCallback, Tail(matches),
            [start |-> match.index + 1,
             result |-> st.result \o substring(aSql, st.start, match.index) \o newName,
             calls |-> Append(st.calls, [name |-> currentName, value |-> value, result |-> newName])])

\* the for loop of processSqlParameters over the matches that are left; st
\* holds start, result and the calls of aCallback made so far
RECURSIVE ProcessMatches(_, _, _, _, _)
ProcessMatches(aSql, aParameterValues, aCallback, matches, st) ==
  IF matches = <<>> THEN st
  ELSE LET match == Head(matches)
           currentName == substringFrom(match.text, 1)
           value == GetProperty(aParameterValues, currentName)
           newName == CallbackResult(aCallback, currentName, value, Len(st.calls))
       IN ProcessMatches(aSql, aParameterValues, aCallback, Tail(matches),
            [start |-> match.index + Len(match.text),
             result |-> st.result \o substring(aSql, st.start, match.index) \o newName,
             calls |-> Append(st.calls, [name |-> currentName, value |-> value, result |-> newName])])

\* processSqlParameters: the text it returns and the calls of aCallback it makes
processSqlParameters(aSql, aParameterValues, aCallback) ==
  LET st == ProcessMatches(aSql, aParameterValues, aCallback, matchAll(aSql, 0),
                           [start |-> 0, result |-> <<>>, calls |-> <<>>])
  IN [result |-> st.result \o substringFrom(aSql, st.start), calls |-> st.calls]

\* a subclass is about to call processSqlParameters
InitSql ==
  /\ InitAdapter
  /\ \E aSql \in Templates, aParameterValues \in ParameterBags, aCallback \in Callbacks :
       db = [pc |-> "called", op |-> "processSqlParameters", aSql |-> aSql,
             aParameterValues |-> aParameterValues, aCallback |-> aCallback]

\* ProcessSqlParametersCall that takes the properties it has read out of the
\* object
ProcessSqlParametersCallConsuming ==
  /\ db.pc = "called"
  /\ db.op = "processSqlParameters"
  /\ LET r == processSqlParameters(db.aSql, db.aParameterValues, db.aCallback)
     IN db' = [pc |-> "idle", op |-> db.op, aSql |-> db.aSql, aParameterValues |-> db.aParameterValues,
               aCallback |-> db.aCallback, calls |-> r.calls,
               properties |-> SelectSeq(db.aParameterValues,
                                        LAMBDA e : \A i \in 1 .. Len(r.calls) : r.calls[i].name # e.key),
               outcome |-> [kind |-> "returned", value |-> r.result]]
  /\ UNCHANGED adapterVars

\* the call of processSqlParameters, from its first line to its return;
\* `properties` is the properties the object passed as aParameterValues has
\* after the call: the method reads the object and never writes to it
ProcessSqlParametersCall ==
  /\ db.pc = "called"
  /\ db.op = "processSqlParameters"
  /\ LET r == processSqlParameters(db.aSql, db.aParameterValues, db.aCallback)
     IN db' = [pc |-> "idle", op |-> db.op, aSql |-> db.aSql, aParameterValues |-> db.aParameterValues,
               aCallback |-> db.aCallback, calls |-> r.calls,
               properties |-> db.aParameterValues,
               outcome |-> [kind |-> "returned", value |-> r.result]]
  /\ UNCHANGED adapterVars

\* ------------------------------------- methods built on the query methods
\* The methods of UFDatabase and of UFMysqlDatabase that build a statement,
\* await one query method and work on its answer.  The query method awaited
\* (insert, update, fieldAs, execute) is the environment here: it answers
\* with a value or throws.
DbClasses == {"UFDatabase", "UFMysqlDatabase"}
\* the property names and values of the objects a caller passes
FieldNames == {"id", "name", "code"}
FieldValues == {0, 5}
\* the objects a caller passes to insertObject and updateObject, as
\* Object.entries lists them: no two properties have the same name
Objects ==
  {d \in UNION {[1 .. n -> {Prop(k, v) : k \in FieldNames, v \in FieldValues}] :
                  n \in 0 .. Cardinality(FieldNames)} :
     \A i, j \in 1 .. Len(d) : i # j => d[i].key # d[j].key}
\* the names a caller passes as aPrimaryKey, the values as aPrimaryValue
KeyNames == {"id", "code"}
PrimaryValues == {5, 9}
\* what insert can answer (the driver's insertId), what update can answer
InsertIds == {-1, 0, 7}
ChangedCounts == {0, 1}
\* what fieldAs can answer the count query of getUniqueCode with
Counts == {0, 2}
\* a number as a value of a column or of aDefault
Number(n) == [number |-> n]
\* the result sets execute can answer field with: rows, each the values of
\* its columns in the order Object.keys lists them
FieldRowSets ==
  {<<>>, <<<<>>>>, <<<<Number(3)>>>>, <<<<Number(3), Number(4)>>>>, <<<<Number(4)>>, <<Number(3)>>>>}
Defaults == {Undefined, Number(9)}
\* the object a caller has passed as aData (a reference, not a copy)
Ref(name) == [ref |-> name]
\* new Error('no field for query')
NoField == Err("fieldOrFail", 0)

\* the calls an application makes
DbCalls ==
  {[op |-> "insertObject", class |-> c, aTable |-> "tableA", aData |-> d, aPrimaryKey |-> k] :
     c \in DbClasses, d \in Objects, k \in KeyNames}
  \cup {[op |-> "updateObject", class |-> "UFDatabase", aTable |-> "tableA", aPrimaryValue |-> v,
         aData |-> d, aPrimaryKey |-> k] : v \in PrimaryValues, d \in Objects, k \in KeyNames}
  \cup {[op |-> "getUniqueCode", class |-> "UFDatabase", aTable |-> "tableA", aColumn |-> "columnA"]}
  \cup {[op |-> m, class |-> "UFMysqlDatabase", aSql |-> <<"sqlA">>, aParameterValues |-> <<>>,
         aDefault |-> v] : m \in {"field"}, v \in Defaults}
  \cup {[op |-> "fieldOrFail", class |-> "UFMysqlDatabase", aSql |-> <<"sqlA">>, aParameterValues |-> <<>>]}

\* an application is about to make one of the calls
InitDb ==
  /\ InitAdapter
  /\ \E a \in DbCalls :
       db = [pc |-> "called", op |-> a.op, args |-> a,
             aData |-> IF a.op \in {"insertObject", "updateObject"} THEN a.aData ELSE <<>>,
             codes |-> <<>>, calls |-> <<>>, answers |-> <<>>, outcome |-> [kind |-> "none"]]

\* NamedInsertParts that does not skip the primary key
RECURSIVE NamedInsertPartsAll(_, _, _, _)
NamedInsertPartsAll(entries, aPrimaryKey, i, acc) ==
  IF i > Len(entries) THEN acc
  ELSE NamedInsertPartsAll(entries, aPrimaryKey, i + 1,
         [columns |-> append(acc.columns, <<entries[i].key>>, <<",">>),
          values |-> append(acc.values, <<":", entries[i].key>>, <<",">>),
          data |-> SetProperty(acc.data, entries[i].key, entries[i].value)])

\* the forEach of UFDatabase.insertObject over the entries from the i-th on
RECURSIVE NamedInsertParts(_, _, _, _)
NamedInsertParts(entries, aPrimaryKey, i, acc) ==
  IF i > Len(entries) THEN acc
  ELSE IF entries[i].key # aPrimaryKey
       THEN NamedInsertParts(entries, aPrimaryKey, i + 1,
              [columns |-> append(acc.columns, <<entries[i].key>>, <<",">>),
               values |-> append(acc.values, <<":", entries[i].key>>, <<",">>),
               data |-> SetProperty(acc.data, entries[i].key, entries[i].value)])
       ELSE NamedInsertParts(entries, aPrimaryKey, i + 1, acc)

\* the statement UFDatabase.insertObject passes to insert
NamedInsertStatement(aTable, aData, aPrimaryKey) ==
  LET parts == NamedInsertParts(aData, aPrimaryKey, 1, [columns |-> <<>>, values |-> <<>>, data |-> <<>>])
  IN Stmt(<<"insert into", aTable, "(">> \o parts.columns \o <<") values (">> \o parts.values \o <<")">>,
          parts.data)

\* the forEach of updateObject over the entries from the i-th on
RECURSIVE UpdateParts(_, _, _, _)
UpdateParts(entries, aPrimaryKey, i, acc) ==
  IF i > Len(entries) THEN acc
  ELSE IF entries[i].key # aPrimaryKey
       THEN UpdateParts(entries, aPrimaryKey, i + 1,
              [fields |-> append(acc.fields, <<entries[i].key, "=", ":", entries[i].key>>, <<",">>),
               data |-> SetProperty(acc.data, entries[i].key, entries[i].value)])
       ELSE UpdateParts(entries, aPrimaryKey, i + 1, acc)

\* UpdateStatement without `data[aPrimaryKey] = aPrimaryValue`
UpdateStatementUnbound(aTable, aPrimaryValue, fields, data, aPrimaryKey) ==
  Stmt(<<"update", aTable, "set">> \o fields \o <<"where", aPrimaryKey, "=", ":", aPrimaryKey>>, data)

\* the statement updateObject passes to update
UpdateStatement(aTable, aPrimaryValue, fields, data, aPrimaryKey) ==
  Stmt(<<"update", aTable, "set">> \o fields \o <<"where", aPrimaryKey, "=", ":", aPrimaryKey>>,
       SetProperty(data, aPrimaryKey, aPrimaryValue))

\* the statement UFDatabase.getUniqueCode passes to fieldAs
NamedCodeStatement(aTable, aColumn, code) ==
  Stmt(<<"select count(*) from", aTable, "where", aColumn, "=", ":", "code">>, <<Prop("code", code)>>)

\* a call of a query method as the method awaits it
QueryOf(op, stmt) == [op |-> op, sql |-> stmt.text, data |-> stmt.args]

\* how a call ends
DbReturn(v) == [db EXCEPT !.pc = "idle", !.outcome = [kind |-> "returned", value |-> v]]
DbRaise(e) == [db EXCEPT !.pc = "idle", !.outcome = [kind |-> "raised", value |-> e]]
\* the query method awaited throws: the error that the number-th call gets
Thrown(op) == Err(op, Len(db.calls))

\* InsertObjectCall with the guard of updateObject: no column, no insert
InsertObjectCallGuarded ==
  /\ db.pc = "called"
  /\ db.op = "insertObject"
  /\ LET stmt == IF db.args.class = "UFMysqlDatabase"
                 THEN InsertStatement(db.args.aTable, db.aData, db.args.aPrimaryKey)
                 ELSE NamedInsertStatement(db.args.aTable, db.aData, db.args.aPrimaryKey)
     IN IF \A i \in 1 .. Len(db.aData) : db.aData[i].key = db.args.aPrimaryKey
        THEN db' = DbReturn(Ref("aData"))
        ELSE db' = [db EXCEPT !.pc = "insert", !.calls = Append(@, QueryOf("insert", stmt))]
  /\ UNCHANGED adapterVars

\* insertObject up to `await this.insert(...)`
InsertObjectCall ==
  /\ db.pc = "called"
  /\ db.op = "insertObject"
  /\ LET stmt == IF db.args.class = "UFMysqlDatabase"
                 THEN InsertStatement(db.args.aTable, db.aData, db.args.aPrimaryKey)
                 ELSE NamedInsertStatement(db.args.aTable, db.aData, db.args.aPrimaryKey)
     IN db' = [db EXCEPT !.pc = "insert", !.calls = Append(@, QueryOf("insert", stmt))]
  /\ UNCHANGED adapterVars

\* InsertObjectResume that clears the key when insert has thrown
InsertObjectResumeClearsKey ==
  /\ db.pc = "insert"
  /\ \/ \E id \in InsertIds :
          db' = [DbReturn(Ref("aData")) EXCEPT
                   !.answers = Append(@, Ok(id)),
                   !.aData = InsertedObject(@, db.args.aPrimaryKey, id)]
     \/ db' = [DbRaise(Thrown("insert")) EXCEPT
                 !.answers = Append(@, Failed(Thrown("insert"))),
                 !.aData = SetProperty(@, db.args.aPrimaryKey, 0)]
  /\ UNCHANGED adapterVars

\* insertObject from the answer of insert
InsertObjectResume ==
  /\ db.pc = "insert"
  /\ \/ \E id \in InsertIds :
          db' = [DbReturn(Ref("aData")) EXCEPT
                   !.answers = Append(@, Ok(id)),
                   !.aData = InsertedObject(@, db.args.aPrimaryKey, id)]
     \/ db' = [DbRaise(Thrown("insert")) EXCEPT !.answers = Append(@, Failed(Thrown("insert")))]
  /\ UNCHANGED adapterVars

\* UpdateObjectCall without the test of fields.length
UpdateObjectCallAlways ==
  /\ db.pc = "called"
  /\ db.op = "updateObject"
  /\ LET parts == UpdateParts(db.aData, db.args.aPrimaryKey, 1, [fields |-> <<>>, data |-> <<>>])
         stmt == UpdateStatement(db.args.aTable, db.args.aPrimaryValue, parts.fields, parts.data,
                                 db.args.aPrimaryKey)
     IN db' = [db EXCEPT !.pc = "update", !.calls = Append(@, QueryOf("update", stmt))]
  /\ UNCHANGED adapterVars

\* updateObject up to `await this.update(sql, data)`, or to its end
UpdateObjectCall ==
  /\ db.pc = "called"
  /\ db.op = "updateObject"
  /\ LET parts == UpdateParts(db.aData, db.args.aPrimaryKey, 1, [fields |-> <<>>, data |-> <<>>])
         stmt == UpdateStatement(db.args.aTable, db.args.aPrimaryValue, parts.fields, parts.data,
                                 db.args.aPrimaryKey)
     IN IF Len(parts.fields) > 0
        THEN db' = [db EXCEPT !.pc = "update", !.calls = Append(@, QueryOf("update", stmt))]
        ELSE db' = DbReturn(Undefined)
  /\ UNCHANGED adapterVars

\* updateObject from the answer of update
UpdateObjectResume ==
  /\ db.pc = "update"
  /\ \/ \E n \in ChangedCounts : db' = [DbReturn(Undefined) EXCEPT !.answers = Append(@, Ok(n))]
     \/ db' = [DbRaise(Thrown("update")) EXCEPT !.answers = Append(@, Failed(Thrown("update")))]
  /\ UNCHANGED adapterVars

\* one round of the loop of getUniqueCode up to `await this.fieldAs(...)`:
\* code is what UFText.generateCode returns
NextCandidate(d, code) ==
  [d EXCEPT !.pc = "fieldAs",
            !.codes = Append(@, code),
            !.calls = Append(@, QueryOf("fieldAs", NamedCodeStatement(d.args.aTable, d.args.aColumn, code)))]

\* getUniqueCode up to the first `await this.fieldAs(...)`
GetUniqueCodeCall ==
  /\ db.pc = "called"
  /\ db.op = "getUniqueCode"
  /\ \E code \in Candidates : db' = NextCandidate(db, code)
  /\ UNCHANGED adapterVars

\* GetUniqueCodeResume that returns the candidate it generated first
GetUniqueCodeResumeFirst ==
  /\ db.pc = "fieldAs"
  /\ \/ \E count \in Counts :
          LET answered == [db EXCEPT !.answers = Append(@, Ok(count))] IN
          IF count = 0
          THEN db' = [answered EXCEPT !.pc = "idle",
                                      !.outcome = [kind |-> "returned", value |-> Head(db.codes)]]
          ELSE /\ Len(db.calls) < MaxQueries
               /\ \E code \in Candidates : db' = NextCandidate(answered, code)
     \/ db' = [DbRaise(Thrown("fieldAs")) EXCEPT !.answers = Append(@, Failed(Thrown("fieldAs")))]
  /\ UNCHANGED adapterVars

\* getUniqueCode from the answer of fieldAs: it returns the code, or goes
\* round the loop up to the next `await this.fieldAs(...)`
GetUniqueCodeResume ==
  /\ db.pc = "fieldAs"
  /\ \/ \E count \in Counts :
          LET answered == [db EXCEPT !.answers = Append(@, Ok(count))] IN
          IF count = 0
          THEN db' = [answered EXCEPT !.pc = "idle",
                                      !.outcome = [kind |-> "returned", value |-> Last(db.codes)]]
          ELSE /\ Len(db.calls) < MaxQueries
               /\ \E code \in Candidates : db' = NextCandidate(answered, code)
     \/ db' = [DbRaise(Thrown("fieldAs")) EXCEPT !.answers = Append(@, Failed(Thrown("fieldAs")))]
  /\ UNCHANGED adapterVars

\* field up to `await this.execute('field', ...)`
FieldCall ==
  /\ db.pc = "called"
  /\ db.op = "field"
  /\ db' = [db EXCEPT !.pc = "field",
                      !.calls = Append(@, QueryOf("execute", Stmt(db.args.aSql, db.args.aParameterValues)))]
  /\ UNCHANGED adapterVars

\* field from the answer of execute
FieldResume ==
  /\ db.pc = "field"
  /\ \/ \E rows \in FieldRowSets :
          db' = [DbReturn(field(rows, db.args.aDefault)) EXCEPT !.answers = Append(@, Ok(rows))]
     \/ db' = [DbRaise(Thrown("execute")) EXCEPT !.answers = Append(@, Failed(Thrown("execute")))]
  /\ UNCHANGED adapterVars

\* fieldOrFail up to the `await this.execute('field', ...)` of the call of
\* field it awaits
FieldOrFailCall ==
  /\ db.pc = "called"
  /\ db.op = "fieldOrFail"
  /\ db' = [db EXCEPT !.pc = "fieldOrFail",
                      !.calls = Append(@, QueryOf("execute", Stmt(db.args.aSql, db.args.aParameterValues)))]
  /\ UNCHANGED adapterVars

\* fieldOrFail from the answer of execute: field returns, with aDefault
\* undefined, and fieldOrFail tests what it got
FieldOrFailResume ==
  /\ db.pc = "fieldOrFail"
  /\ \/ \E rows \in FieldRowSets :
          LET got == field(rows, Undefined) IN
          db' = [(IF got = Undefined THEN DbRaise(NoField) ELSE DbReturn(got)) EXCEPT
                   !.answers = Append(@, Ok(rows))]
     \/ db' = [DbRaise(Thrown("execute")) EXCEPT !.answers = Append(@, Failed(Thrown("execute")))]
  /\ UNCHANGED adapterVars

\* ---------------------------------------------------- UFText.generateCode
\* A code is a sequence of character codes (String.fromCharCode).
\* the values of Math.floor(aMin + Math.random() * (aMax - aMin + 1)) that are
\* followed: the ends of the ranges of digits, upper case and lower case
\* letters, the four values generateCode draws again, and their neighbours
RandomValues == {0, 1, 2, 9, 10, 23, 24, 25, 35, 36, 46, 47, 48, 61}
\* UFMath.randomInteger(aMin, aMax): what it can return
randomInteger(aMin, aMax) == {n \in aMin .. aMax : n \in RandomValues}

\* the test that ends the while loop, without the test for lower case l
BreaksLoopButL(charCode) == charCode # 0 /\ charCode # 24 /\ charCode # 1

\* the test that ends the while loop of generateCode
BreaksLoop(charCode) == charCode # 0 /\ charCode # 24 /\ charCode # 1 /\ charCode # 47

\* the character generateCode appends for charCode
CodeChar(charCode) ==
  IF charCode < 10 THEN charCode + 48
  ELSE IF charCode < 36 THEN charCode + 65 - 10
  ELSE charCode + 97 - 10 - 26

\* an application is about to call generateCode
InitCode ==
  /\ InitAdapter
  /\ \E aLength \in 0 .. MaxCodeLen :
       db = [pc |-> "called", op |-> "generateCode", aLength |-> aLength, result |-> <<>>,
             numberCount |-> 0, cnt |-> 0, outcome |-> [kind |-> "none"]]

\* generateCode up to the test of the for loop
GenerateCodeCall ==
  /\ db.pc = "called"
  /\ db.op = "generateCode"
  /\ db' = [db EXCEPT !.pc = "for", !.result = <<>>, !.numberCount = 1, !.cnt = 0]
  /\ UNCHANGED adapterVars

\* one round of the while loop: a draw, and when it ends the loop, the rest
\* of the round of the for loop
GenerateCodeDraw ==
  /\ db.pc = "for"
  /\ db.cnt < db.aLength
  /\ \E charCode \in (IF db.numberCount > 2 THEN randomInteger(0, 9) ELSE randomInteger(0, 61)) :
       IF BreaksLoop(charCode)
       THEN db' = [db EXCEPT !.result = Append(@, CodeChar(charCode)),
                             !.numberCount = IF charCode < 10 THEN 0 ELSE @ + 1,
                             !.cnt = @ + 1]
       ELSE UNCHANGED db
  /\ UNCHANGED adapterVars

\* the for loop has ended: `return result`
GenerateCodeReturn ==
  /\ db.pc = "for"
  /\ ~(db.cnt < db.aLength)
  /\ db' = [db EXCEPT !.pc = "idle", !.outcome = [kind |-> "returned", value |-> db.result]]
  /\ UNCHANGED adapterVars

\* ------------------------------------------------------------------ UFDate
\* A Date is the number of milliseconds it holds: `<` and `>` compare two
\* Date objects by that number.
Times == 1 .. 3
\* the lists of dates a caller passes to max and min: one date or more
DateLists == UNION {[1 .. n -> Times] : n \in 1 .. MaxDates}

\* aDates.reduce(callback) without an initial value, from the i-th date on
RECURSIVE reduce(_, _, _, _)
reduce(aDates, callback, i, accumulator) ==
  IF i > Len(aDates) THEN accumulator
  ELSE reduce(aDates, callback, i + 1,
              IF callback = "max"
              THEN (IF accumulator < aDates[i] THEN accumulator ELSE aDates[i])
              ELSE (IF accumulator > aDates[i] THEN accumulator ELSE aDates[i]))

\* an application is about to call UFDate.max or UFDate.min
InitDate ==
  /\ InitAdapter
  /\ \E op \in {"max", "min"}, aDates \in DateLists :
       db = [pc |-> "called", op |-> op, aDates |-> aDates, outcome |-> [kind |-> "none"]]

\* UFDate.max
MaxCall ==
  /\ db.pc = "called"
  /\ db.op = "max"
  /\ db' = [db EXCEPT !.pc = "idle",
                      !.outcome = [kind |-> "returned", value |-> reduce(db.aDates, "max", 2, db.aDates[1])]]
  /\ UNCHANGED adapterVars

\* UFDate.min
MinCall ==
  /\ db.pc = "called"
  /\ db.op = "min"
  /\ db' = [db EXCEPT !.pc = "idle",
                      !.outcome = [kind |-> "returned", value |-> reduce(db.aDates, "min", 2, db.aDates[1])]]
  /\ UNCHANGED adapterVars

\* -------------------------------------------------------------- UFMapOfSet
\* the keys and the values an application stores
MapKeys == {"keyA", "keyB"}
MapValues == 1 .. MaxValues

\* A Set is the sequence of its values in the order they were added, a Map
\* the function from the keys it holds to their values.
SetHas(set, aValue) == \E i \in 1 .. Len(set) : set[i] = aValue
SetAdd(set, aValue) == IF SetHas(set, aValue) THEN set ELSE Append(set, aValue)
SetDelete(set, aValue) == SelectSeq(set, LAMBDA x : x # aValue)
MapSet(map, aKey, aValue) == [k \in DOMAIN map \cup {aKey} |-> IF k = aKey THEN aValue ELSE map[k]]
MapDelete(map, aKey) == [k \in DOMAIN map \ {aKey} |-> map[k]]
\* new Map()
EmptyMap == [k \in {} |-> <<>>]

\* UFMapOfSet.add
add(m_map, aKey, aValue) ==
  LET created == IF aKey \notin DOMAIN m_map THEN MapSet(m_map, aKey, <<>>) ELSE m_map
  IN [created EXCEPT ![aKey] = SetAdd(@, aValue)]

\* remove that keeps the key of a set it has emptied
removeKeepsKey(m_map, aKey, aValue) ==
  IF aKey \in DOMAIN m_map THEN [m_map EXCEPT ![aKey] = SetDelete(@, aValue)] ELSE m_map

\* UFMapOfSet.remove
remove(m_map, aKey, aValue) ==
  IF aKey \in DOMAIN m_map
  THEN LET set == SetDelete(m_map[aKey], aValue)
       IN IF Len(set) = 0 THEN MapDelete(m_map, aKey) ELSE MapSet(m_map, aKey, set)
  ELSE m_map

\* UFMapOfSet.get, has, hasValue and isEmpty
get(m_map, aKey) == IF aKey \in DOMAIN m_map THEN m_map[aKey] ELSE <<>>
has(m_map, aKey) == aKey \in DOMAIN m_map
hasValue(m_map, aKey, aValue) == aKey \in DOMAIN m_map /\ SetHas(m_map[aKey], aValue)
isEmpty(m_map) == Cardinality(DOMAIN m_map) = 0

\* a new UFMapOfSet; `stored` is the pairs added and not removed since, and
\* `last` the latest call with the map as it was before the call
InitMap ==
  /\ InitAdapter
  /\ db = [pc |-> "idle", op |-> "mapOfSet", m_map |-> EmptyMap, stored |-> {},
           last |-> [method |-> "none"]]

\* an application calls add
AddCall ==
  /\ db.op = "mapOfSet"
  /\ \E aKey \in MapKeys, aValue \in MapValues :
       db' = [db EXCEPT !.m_map = add(@, aKey, aValue),
                        !.stored = @ \cup {<<aKey, aValue>>},
                        !.last = [method |-> "add", aKey |-> aKey, aValue |-> aValue, before |-> db.m_map]]
  /\ UNCHANGED adapterVars

\* an application calls remove
RemoveCall ==
  /\ db.op = "mapOfSet"
  /\ \E aKey \in MapKeys, aValue \in MapValues :
       db' = [db EXCEPT !.m_map = remove(@, aKey, aValue),
                        !.stored = @ \ {<<aKey, aValue>>},
                        !.last = [method |-> "remove", aKey |-> aKey, aValue |-> aValue, before |-> db.m_map]]
  /\ UNCHANGED adapterVars

\* ------------------------------------------------------- specifications
\* the query methods callers use while another caller is running
SomeMethods == {"insert"}

\* two callers on one adapter: t1 calls init, query methods and transaction,
\* t2 calls init and query methods
Next ==
  \/ \E t \in Tasks, p \in ParamSets : InitCall(t, p)
  \/ \E t \in Tasks : InitResume(t)
  \/ \E t \in Tasks, m \in SomeMethods : \E a \in Args(m) : QueryCall(t, m, a, "")
  \/ \E t \in Tasks : Try1Resume(t)
  \/ \E t \in Tasks : EndResume(t)
  \/ \E t \in Tasks : ConnectResume(t)
  \/ \E t \in Tasks : Try2Resume(t)
  \/ TransactionCall("t1")
  \/ BeginResume("t1")
  \/ \E m \in SomeMethods : \E a \in Args(m) : CallbackQuery("t1", m, a, "")
  \/ CallbackReturn("t1")
  \/ \E e \in CallbackErrors("t1") : CallbackThrow("t1", e)
  \/ CommitResume("t1")
  \/ RollbackResume("t1")

Spec == Init /\ [][Next]_vars

\* one caller of every query method and of transaction; init is called by
\* either caller, so that a method can be called while init is suspended
NextOne ==
  \/ \E t \in Tasks, p \in ParamSets : InitCall(t, p)
  \/ \E t \in Tasks : InitResume(t)
  \/ \E m \in Methods, code \in Candidates : \E a \in Args(m) : QueryCall("t1", m, a, code)
  \/ Try1Resume("t1")
  \/ EndResume("t1")
  \/ ConnectResume("t1")
  \/ Try2Resume("t1")
  \/ TransactionCall("t1")
  \/ BeginResume("t1")
  \/ \E m \in Methods, code \in Candidates : \E a \in Args(m) : CallbackQuery("t1", m, a, code)
  \/ CallbackReturn("t1")
  \/ \E e \in CallbackErrors("t1") : CallbackThrow("t1", e)
  \/ CommitResume("t1")
  \/ RollbackResume("t1")

SpecOne == Init /\ [][NextOne]_vars

\* two callers of transaction on one adapter, after one of them has called
\* init: each callback awaits at most MaxStmts statements
NextTx ==
  \/ \E p \in ParamSets : InitCall("t1", p)
  \/ InitResume("t1")
  \/ \E t \in Tasks : TransactionCall(t)
  \/ \E t \in Tasks : BeginResume(t)
  \/ \E t \in Tasks, m \in SomeMethods : \E a \in Args(m) : CallbackQuery(t, m, a, "")
  \/ \E t \in Tasks : Try1Resume(t)
  \/ \E t \in Tasks : EndResume(t)
  \/ \E t \in Tasks : ConnectResume(t)
  \/ \E t \in Tasks : Try2Resume(t)
  \/ \E t \in Tasks : CallbackReturn(t)
  \/ \E t \in Tasks : \E e \in CallbackErrors(t) : CallbackThrow(t, e)
  \/ \E t \in Tasks : CommitResume(t)
  \/ \E t \in Tasks : RollbackResume(t)

SpecTx == Init /\ [][NextTx]_vars

\* processSqlParameters applied to every template, parameter object and callback
NextSql == ProcessSqlParametersCall

SpecSql == InitSql /\ [][NextSql]_vars

\* one call of insertObject, updateObject, getUniqueCode, field or fieldOrFail
\* with the answers the query method it awaits can give
NextDb ==
  \/ InsertObjectCall
  \/ InsertObjectResume
  \/ UpdateObjectCall
  \/ UpdateObjectResume
  \/ GetUniqueCodeCall
  \/ GetUniqueCodeResume
  \/ FieldCall
  \/ FieldResume
  \/ FieldOrFailCall
  \/ FieldOrFailResume

SpecDb == InitDb /\ [][NextDb]_vars

\* one call of generateCode with every length and every sequence of draws
NextCode ==
  \/ GenerateCodeCall
  \/ GenerateCodeDraw
  \/ GenerateCodeReturn

SpecCode == InitCode /\ [][NextCode]_vars

\* one call of UFDate.max or UFDate.min with every list of dates
NextDate ==
  \/ MaxCall
  \/ MinCall

SpecDate == InitDate /\ [][NextDate]_vars

\* every sequence of add and remove on one UFMapOfSet
NextMap ==
  \/ AddCall
  \/ RemoveCall

SpecMap == InitMap /\ [][NextMap]_vars

\* ---------------------------------------------------------------- claims
\* number of driver calls `op` among evs
Count(evs, op) == Cardinality({i \in 1 .. Len(evs) : evs[i].op = op})
\* the driver calls `op` among evs that have been answered without an error
Answered(t, op) == {i \in 1 .. Len(outs[t]) : events[t][i].op = op /\ outs[t][i].ok}
\* the caller's last call of execute has made a first attempt, which failed
FirstFailed(t) == Len(outs[t]) >= 1 /\ events[t][1].op = "execute" /\ ~outs[t][1].ok
\* the caller is suspended inside execute
InExecute(t) == pc[t] \in {"try1", "end", "connect", "try2"}
\* the operations of the driver calls of evs, in order
Ops(evs) == [i \in 1 .. Len(evs) |-> evs[i].op]

\* C1: when the first attempt of a call of execute has failed, the
\* reconnection has succeeded and the second attempt has succeeded, execute
\* has returned what the second attempt answered, and the call has closed a
\* connection exactly once and created a connection exactly once, between
\* the two attempts.
C1_RetryReturnsSecond ==
  \A t \in Tasks :
    (/\ FirstFailed(t)
     /\ Answered(t, "createConnection") # {}
     /\ \E i \in Answered(t, "execute") : i > 1)
    => /\ result[t].kind = "returned"
       /\ \E i \in Answered(t, "execute") : i = Len(outs[t]) /\ result[t].value = outs[t][i].val
       /\ Count(events[t], "end") = 1
       /\ Count(events[t], "createConnection") = 1
       /\ Ops(events[t]) = <<"execute", "end", "createConnection", "execute">>

C1_Witness ==
  \E t \in Tasks :
    /\ FirstFailed(t)
    /\ Answered(t, "createConnection") # {}
    /\ result[t].kind = "returned"
    /\ result[t].value = [insertId |-> 7, changedRows |-> 1]

\* C2: a call of execute invokes the driver's execute at most twice and
\* createConnection at most once; when the second attempt has failed, execute
\* has raised the error of the second attempt and runs no further.
C2_AtMostTwoAttempts ==
  \A t \in Tasks :
    /\ Count(events[t], "execute") <= 2
    /\ call[t].op # "init" => Count(events[t], "createConnection") <= 1
    /\ (Len(outs[t]) = 4 /\ events[t][4].op = "execute" /\ ~outs[t][4].ok)
       => /\ result[t].kind = "raised"
          /\ result[t].value = outs[t][4].val
          /\ result[t].value # outs[t][1].val
          /\ ~InExecute(t)

C2_Witness ==
  \E t \in Tasks :
    /\ Len(outs[t]) = 4 /\ events[t][4].op = "execute" /\ ~outs[t][4].ok
    /\ result[t].kind = "raised"
    /\ Count(events[t], "execute") = 2

\* the caller takes a step out of "idle": it calls a method
Calls(t) ==
  /\ pc[t] = "idle"
  /\ <<pc[t], call[t], events[t], outs[t], log[t], result[t], txEvents[t], txOuts[t], outcome[t]>>'
       # <<pc[t], call[t], events[t], outs[t], log[t], result[t], txEvents[t], txOuts[t], outcome[t]>>

\* C3: while there is no connection, a call of a query method or of
\* transaction raises the not-connected error at once, invokes no driver
\* call (no execute, no createConnection, no beginTransaction) and leaves
\* the adapter's fields and the driver's connections as they are.
C3_NotConnectedFailsFast ==
  [][\A t \in Tasks :
       (m_connection = Null /\ Calls(t) /\ call'[t].op \in Methods \cup {"transaction"})
       => /\ outcome'[t] = [kind |-> "raised", value |-> NotConnected]
          /\ pc'[t] = "idle"
          /\ events'[t] = <<>>
          /\ txEvents'[t] = <<>>
          /\ m_connection' = Null
          /\ m_params' = m_params
          /\ conns' = conns]_vars

C3_Witness ==
  \E t \in Tasks :
    /\ m_connection = Null
    /\ call[t].op = "getUniqueCode"
    /\ outcome[t] = [kind |-> "raised", value |-> NotConnected]
    /\ events[t] = <<>>

\* C4: when the first attempt of a call of execute has failed and the
\* reconnection has failed, execute has raised the error of createConnection,
\* which is not the error of the first attempt, and has made no second
\* attempt.
C4_ReconnectErrorRaised ==
  \A t \in Tasks :
    (/\ FirstFailed(t)
     /\ \E i \in 1 .. Len(outs[t]) : events[t][i].op = "createConnection" /\ ~outs[t][i].ok)
    => /\ result[t].kind = "raised"
       /\ result[t].value = Last(outs[t]).val
       /\ Last(events[t]).op = "createConnection"
       /\ result[t].value # outs[t][1].val
       /\ Count(events[t], "execute") = 1
       /\ ~InExecute(t)

C4_Witness ==
  \E t \in Tasks :
    /\ FirstFailed(t)
    /\ Len(outs[t]) = 3 /\ ~outs[t][3].ok
    /\ result[t].kind = "raised"
    /\ result[t].value.src = "createConnection"

\* the close of the caller's last call of execute has failed
CloseFailed(t) == FirstFailed(t) /\ Len(outs[t]) >= 2 /\ events[t][2].op = "end" /\ ~outs[t][2].ok

\* C5: when the first attempt of a call of execute has failed and closing the
\* connection has failed too, the close error has been logged, createConnection
\* has been invoked all the same, the statement is attempted once more when
\* the reconnection succeeds, and the close error is never the error that
\* execute raises.
C5_CloseFailureDoesNotAbort ==
  \A t \in Tasks :
    CloseFailed(t)
    => /\ \E i \in 1 .. Len(log[t]) :
            log[t][i] = LogEntry("error", outs[t][2].val, "ending connection", <<>>)
       /\ Len(events[t]) >= 3 /\ events[t][3].op = "createConnection"
       /\ (Len(outs[t]) >= 3 /\ outs[t][3].ok)
          => /\ Len(events[t]) = 4
             /\ events[t][4] = Event("execute", outs[t][3].val, events[t][1].arg)
       /\ result[t].kind = "raised" => result[t].value # outs[t][2].val
       /\ outcome[t].kind = "raised" => outcome[t].value # outs[t][2].val

C5_Witness ==
  \E t \in Tasks :
    /\ CloseFailed(t)
    /\ Len(outs[t]) = 4 /\ outs[t][3].ok /\ outs[t][4].ok
    /\ result[t].kind = "returned"

\* C6: at most one connection the adapter has created is open.
C6_AtMostOneOpen ==
  Cardinality({c \in ConnIds : conns[c] = "open"}) <= 1

\* C7: at most one caller is inside execute (its attempts, its close and its
\* reconnect) at any time.
C7_ExecuteSerialized ==
  Cardinality({t \in Tasks : InExecute(t)}) <= 1

\* the callback of the caller's last call of transaction has returned
CallbackReturned(t) == Len(txOuts[t]) >= 2 /\ txOuts[t][2].ok
\* the callback of the caller's last call of transaction has thrown
CallbackFailed(t) == Len(txOuts[t]) >= 2 /\ ~txOuts[t][2].ok
\* the caller's last call of transaction has ended
TransactionEnded(t) == call[t].op = "transaction" /\ outcome[t].kind # "none"

\* C8 as claimed: when the callback of transaction has returned normally,
\* one begin, one commit and no rollback have been invoked, in the order
\* begin, callback, commit.
C8_CommitNoRollback ==
  \A t \in Tasks :
    CallbackReturned(t) => Ops(txEvents[t]) = <<"beginTransaction", "callback", "commit">>

\* C8 as amended: when the callback of transaction has returned normally, one
\* begin and one commit have been invoked, in the order begin, callback,
\* commit; no rollback has been invoked unless the commit has failed, and then
\* exactly one, after the commit.
C8_CommitThenRollbackOnlyIfCommitFails ==
  \A t \in Tasks :
    CallbackReturned(t)
    => IF Len(txOuts[t]) >= 3 /\ ~txOuts[t][3].ok
       THEN Ops(txEvents[t]) = <<"beginTransaction", "callback", "commit", "rollback">>
       ELSE Ops(txEvents[t]) = <<"beginTransaction", "callback", "commit">>

C8_Witness ==
  \E t \in Tasks :
    /\ CallbackReturned(t)
    /\ Len(txOuts[t]) = 3 /\ txOuts[t][3].ok
    /\ outcome[t].kind = "returned"
    /\ call[t].stmts = 1

\* C9: when the callback of transaction has thrown and transaction has ended,
\* one rollback and no commit have been invoked after the begin, and
\* transaction has raised the error the callback threw.
C9_RollbackAndOriginalError ==
  \A t \in Tasks :
    (CallbackFailed(t) /\ TransactionEnded(t))
    => /\ Ops(txEvents[t]) = <<"beginTransaction", "callback", "rollback">>
       /\ outcome[t] = [kind |-> "raised", value |-> call[t].cbErr]

\* C10: when the callback of transaction has thrown and the rollback has
\* failed too, transaction has raised the error the callback threw.
C10_OriginalErrorWins ==
  \A t \in Tasks :
    (CallbackFailed(t) /\ TransactionEnded(t) /\ ~Last(txOuts[t]).ok /\ Last(txEvents[t]).op = "rollback"
       /\ Len(txOuts[t]) = Len(txEvents[t]))
    => outcome[t] = [kind |-> "raised", value |-> call[t].cbErr]

\* the connections the caller's running or last call of transaction has sent
\* its begin, its commit and its rollback to
TxConns(t) == {txEvents[t][i].conn : i \in {j \in 1 .. Len(txEvents[t]) : txEvents[t][j].op # "callback"}}
\* the connections the attempts of the statement the callback awaits, or has
\* awaited last, have been sent to
StmtConns(t) == {events[t][i].conn : i \in {j \in 1 .. Len(events[t]) : events[t][j].op = "execute"}}

\* C11: within one call of transaction, the begin, every attempt of every
\* statement the callback issues and the final commit or rollback are sent
\* to one and the same connection.
C11_OneConnectionPerTransaction ==
  \A t \in Tasks :
    call[t].op = "transaction" => Cardinality(TxConns(t) \cup StmtConns(t)) <= 1

\* the caller's call of transaction has begun a transaction that it has
\* neither committed nor rolled back yet
TransactionOpen(t) ==
  /\ call[t].op = "transaction"
  /\ pc[t] \in {"callback", "try1", "end", "connect", "try2", "commit", "rollback"}

\* C12: a call of transaction made while another caller's transaction is
\* open raises an error at once and sends no beginTransaction to the
\* connection.
C12_SecondTransactionRejected ==
  [][\A t \in Tasks :
       (/\ Calls(t) /\ call'[t].op = "transaction"
        /\ \E u \in Tasks \ {t} : TransactionOpen(u))
       => /\ outcome'[t].kind = "raised"
          /\ pc'[t] = "idle"
          /\ txEvents'[t] = <<>>]_vars

\* processSqlParameters has returned
SqlProcessed == db.op = "processSqlParameters" /\ db.pc = "idle"
\* the positions (from 1) of a text where a placeholder starts: a colon that a
\* word character follows
PlaceholderStarts(aText) ==
  {i \in 1 .. Len(aText) - 1 : aText[i] = ":" /\ aText[i + 1] \in WordChars}
\* the position of the last character of the placeholder that starts at i
PlaceholderEnd(aText, i) ==
  CHOOSE e \in i + 1 .. Len(aText) :
    /\ \A j \in i + 1 .. e : aText[j] \in WordChars
    /\ e = Len(aText) \/ aText[e + 1] \notin WordChars
\* the k-th smallest member of a set of numbers
Nth(S, k) == CHOOSE i \in S : Cardinality({j \in S : j < i}) = k - 1
\* the text read from position i on, character by character, where the k-th
\* and the later placeholders are replaced by the k-th and the later of texts
RECURSIVE Replaced(_, _, _, _)
Replaced(aText, i, k, texts) ==
  IF i > Len(aText) THEN <<>>
  ELSE IF i \in PlaceholderStarts(aText)
       THEN texts[k] \o Replaced(aText, PlaceholderEnd(aText, i) + 1, k + 1, texts)
       ELSE <<aText[i]>> \o Replaced(aText, i + 1, k, texts)

\* C13: when processSqlParameters has returned for a template with n
\* placeholder occurrences, it has called the callback n times, the k-th call
\* with the name of the k-th occurrence from the left, and the text returned
\* is the template with the k-th occurrence replaced by what the k-th call
\* returned and every other character copied.
C13_OneCallbackPerOccurrence ==
  SqlProcessed
  => LET starts == PlaceholderStarts(db.aSql) IN
     /\ Len(db.calls) = Cardinality(starts)
     /\ \A k \in 1 .. Len(db.calls) :
          db.calls[k].name = SubSeq(db.aSql, Nth(starts, k) + 1, PlaceholderEnd(db.aSql, Nth(starts, k)))
     /\ db.outcome.kind = "returned"
     /\ db.outcome.value = Replaced(db.aSql, 1, 1, [k \in 1 .. Len(db.calls) |-> db.calls[k].result])

C13_Witness ==
  /\ SqlProcessed
  /\ db.aSql = <<":", "a", " ", ":", "a">>
  /\ db.aCallback = "numbered"
  /\ db.outcome.value = <<"$", "1", " ", "$", "2">>

\* the positions (from 1) of the colons of a text that start no placeholder
BareColons(aText) == {i \in 1 .. Len(aText) : aText[i] = ":"} \ PlaceholderStarts(aText)
\* by how much the text returned is longer than the template up to position i
Shift(aText, calls, i) ==
  LET starts == PlaceholderStarts(aText)
      before == {k \in 1 .. Len(calls) : Nth(starts, k) < i}
      RECURSIVE Sum(_)
      Sum(K) == IF K = {} THEN 0
                ELSE LET k == CHOOSE x \in K : TRUE
                     IN Len(calls[k].result) - (1 + Len(calls[k].name)) + Sum(K \ {k})
  IN Sum(before)

\* C14: when processSqlParameters has returned for a template without a
\* placeholder (the empty template among them), it has not called the
\* callback and has returned the template; a colon that no word character
\* follows has caused no call of the callback and stands in the text returned
\* where it stood in the template, moved only by the replacements before it.
C14_NoPlaceholderNoCallback ==
  SqlProcessed
  => /\ PlaceholderStarts(db.aSql) = {}
        => /\ db.calls = <<>>
           /\ db.outcome = [kind |-> "returned", value |-> db.aSql]
     /\ Len(db.calls) = Cardinality({i \in 1 .. Len(db.aSql) : db.aSql[i] = ":"}) - Cardinality(BareColons(db.aSql))
     /\ \A k \in 1 .. Len(db.calls) : db.calls[k].name # <<>>
     /\ \A i \in BareColons(db.aSql) :
          /\ i + Shift(db.aSql, db.calls, i) \in 1 .. Len(db.outcome.value)
          /\ db.outcome.value[i + Shift(db.aSql, db.calls, i)] = ":"

C14_Witness ==
  /\ SqlProcessed
  /\ db.aSql = <<":", " ", ":", "a", ":">>
  /\ db.aCallback = "question"
  /\ db.outcome.value = <<":", " ", "?", ":">>
  /\ Len(db.calls) = 1

\* the first position of a token in a text of tokens
IndexOf(text, token) == CHOOSE i \in 1 .. Len(text) : text[i] = token /\ \A j \in 1 .. i - 1 : text[j] # token
\* a list of a statement without its separators
Items(list) == SelectSeq(list, LAMBDA x : x # ",")
\* the column list and the value list of an insert statement
ColumnList(sql) == Items(SubSeq(sql, IndexOf(sql, "(") + 1, IndexOf(sql, ") values (") - 1))
ValueList(sql) == Items(SubSeq(sql, IndexOf(sql, ") values (") + 1, Len(sql) - 1))
\* the properties of an object other than the primary key, in their order
OtherFields(anObject, aPrimaryKey) == SelectSeq(anObject, LAMBDA e : e.key # aPrimaryKey)
\* the object has the property k with the value v
Has(anObject, k, v) == \E i \in 1 .. Len(anObject) : anObject[i] = Prop(k, v)
\* the call of insert that insertObject has made
InsertIssued == db.op = "insertObject" /\ Len(db.calls) >= 1
\* insertObject has returned after insert answered a positive id
InsertedPositive ==
  /\ InsertIssued /\ db.pc = "idle"
  /\ Len(db.answers) = 1 /\ db.answers[1].ok /\ db.answers[1].val > 0

C16_KeyPositiveAfterInsert ==
  (db.op = "insertObject" /\ db.outcome.kind = "returned")
  => \E i \in 1 .. Len(db.aData) : db.aData[i].key = db.args.aPrimaryKey /\ db.aData[i].value > 0

\* the query method that insertObject or updateObject awaited has thrown
StatementFailed ==
  /\ db.op \in {"insertObject", "updateObject"}
  /\ Len(db.answers) = 1 /\ ~db.answers[1].ok

\* C17: when insert or update has thrown, insertObject or updateObject has
\* raised that error and every property of aData is what it was when the
\* method was called; updateObject leaves aData as it was however it ends.
C17_RecordUnchangedOnFailure ==
  /\ StatementFailed
     => /\ db.outcome = [kind |-> "raised", value |-> db.answers[1].val]
        /\ db.aData = db.args.aData
  /\ db.op = "updateObject" => db.aData = db.args.aData

C17_Witness ==
  /\ StatementFailed
  /\ db.op = "insertObject"
  /\ db.args.aData = <<Prop("id", 5), Prop("name", 0)>>
  /\ db.args.aPrimaryKey = "id"
  /\ db.outcome.kind = "raised"

\* aData has no property other than aPrimaryKey
OnlyKey == \A i \in 1 .. Len(db.args.aData) : db.args.aData[i].key = db.args.aPrimaryKey

\* C18: updateObject called with an object that has no property other than
\* aPrimaryKey calls no query method and returns.
C18_NothingToUpdate ==
  (db.op = "updateObject" /\ OnlyKey /\ db.pc # "called")
  => /\ db.calls = <<>>
     /\ db.pc = "idle"
     /\ db.outcome = [kind |-> "returned", value |-> Undefined]

C18_Witness ==
  /\ db.op = "updateObject"
  /\ db.args.aData = <<Prop("id", 5)>>
  /\ db.args.aPrimaryKey = "id"
  /\ db.calls = <<>>
  /\ db.outcome.kind = "returned"

\* execute has answered field or fieldOrFail with a result set
FieldAnswered(op) == db.op = op /\ Len(db.answers) = 1 /\ db.answers[1].ok

\* C19: field returns the first column of the first row when the result set
\* has a row with a column, and aDefault when the result set is empty;
\* fieldOrFail returns the first column of the first row in the first case
\* and raises the no-field error in the second.
C19_FirstColumnOrDefault ==
  /\ FieldAnswered("field")
     => LET rows == db.answers[1].val IN
        /\ (Len(rows) >= 1 /\ Len(rows[1]) >= 1)
           => db.outcome = [kind |-> "returned", value |-> rows[1][1]]
        /\ rows = <<>> => db.outcome = [kind |-> "returned", value |-> db.args.aDefault]
  /\ FieldAnswered("fieldOrFail")
     => LET rows == db.answers[1].val IN
        /\ (Len(rows) >= 1 /\ Len(rows[1]) >= 1)
           => db.outcome = [kind |-> "returned", value |-> rows[1][1]]
        /\ rows = <<>> => db.outcome = [kind |-> "raised", value |-> NoField]

C19_Witness ==
  /\ FieldAnswered("field")
  /\ db.answers[1].val = <<<<Number(4)>>, <<Number(3)>>>>
  /\ db.args.aDefault = Number(9)
  /\ db.outcome = [kind |-> "returned", value |-> Number(4)]

\* C20: getUniqueCode makes one count query per code it generates, in the
\* order it generates them, and generates a code only after every query
\* before has been answered with a count other than 0; when it has
\* returned, after k such answers and one answer of 0, it has made k + 1
\* queries and has returned the code of the last one.
C20_FirstFreeCandidate ==
  db.op = "getUniqueCode"
  => /\ Len(db.calls) = Len(db.codes)
     /\ \A i \in 1 .. Len(db.calls) : db.calls[i].data = <<Prop("code", db.codes[i])>>
     /\ \A i \in 1 .. Len(db.calls) - 1 : db.answers[i].ok /\ db.answers[i].val # 0
     /\ db.outcome.kind = "returned"
        => LET k == Len(db.answers) - 1 IN
           /\ k >= 0
           /\ db.answers[k + 1].ok /\ db.answers[k + 1].val = 0
           /\ Len(db.calls) = k + 1
           /\ db.outcome.value = db.codes[k + 1]
     /\ (db.answers # <<>> /\ Last(db.answers).ok /\ Last(db.answers).val = 0)
        => db.outcome.kind = "returned"

C20_Witness ==
  /\ db.op = "getUniqueCode"
  /\ db.codes = <<"codeA", "codeA", "codeB">>
  /\ Len(db.answers) = 3
  /\ db.outcome = [kind |-> "returned", value |-> "codeB"]

\* a number of attempts a caller would allow getUniqueCode: fewer than the
\* rounds of the loop that are followed here
AttemptsAllowed == MaxQueries - 1
\* fieldAs has answered each of the first n count queries with a count other than 0
Rejected(n) ==
  /\ Len(db.answers) >= n
  /\ \A i \in 1 .. n : db.answers[i].ok /\ db.answers[i].val # 0

\* C21: getUniqueCode makes no more count queries than the caller allows, and
\* when every one of them has been answered with a count other than 0 it has
\* raised an error.
C21_StopsAfterMaximumAttempts ==
  db.op = "getUniqueCode"
  => /\ Len(db.calls) <= AttemptsAllowed
     /\ Rejected(AttemptsAllowed) => db.outcome.kind = "raised"

\* generateCode has returned
CodeGenerated == db.op = "generateCode" /\ db.outcome.kind = "returned"
\* the character codes of '0'..'9', 'A'..'Z' and 'a'..'z'
IsDigit(ch) == ch \in 48 .. 57
IsLetter(ch) == ch \in 65 .. 90 \/ ch \in 97 .. 122

\* C22: every three consecutive characters of the code generateCode returns
\* have a digit among them.
C22_DigitInEveryThree ==
  CodeGenerated
  => \A i \in 1 .. Len(db.outcome.value) - 2 :
       \E j \in i .. i + 2 : IsDigit(db.outcome.value[j])

\* C23: the code generateCode returns has aLength characters, each a digit
\* or a letter, none of them '0', 'O', '1' or 'l'.
C23_LengthAndAlphabet ==
  CodeGenerated
  => /\ Len(db.outcome.value) = db.aLength
     /\ \A i \in 1 .. Len(db.outcome.value) :
          /\ IsDigit(db.outcome.value[i]) \/ IsLetter(db.outcome.value[i])
          /\ db.outcome.value[i] \notin {48, 79, 49, 108}

C23_Witness ==
  /\ CodeGenerated
  /\ db.aLength = 4
  /\ db.outcome.value = <<107, 90, 57, 109>>

\* the dates of a list
DatesOf(aDates) == {aDates[i] : i \in 1 .. Len(aDates)}

\* C24: UFDate.max returns the newest date of the list it is passed and
\* UFDate.min the oldest.
C24_NewestAndOldest ==
  /\ (db.op = "max" /\ db.pc = "idle")
     => /\ db.outcome.value \in DatesOf(db.aDates)
        /\ \A d \in DatesOf(db.aDates) : d <= db.outcome.value
  /\ (db.op = "min" /\ db.pc = "idle")
     => /\ db.outcome.value \in DatesOf(db.aDates)
        /\ \A d \in DatesOf(db.aDates) : d >= db.outcome.value

\* the SET list of an update statement: what stands between `set` and `where`
SetList(sql) == SubSeq(sql, 4, IndexOf(sql, "where") - 1)
\* what follows the SET list
WherePart(sql) == SubSeq(sql, IndexOf(sql, "where"), Len(sql))
\* updateObject has been called with an object that has a property other
\* than aPrimaryKey, and has run up to its await or further
UpdateIssued == db.op = "updateObject" /\ ~OnlyKey /\ db.pc # "called"

\* C25: updateObject called with an object that has a property other than
\* aPrimaryKey calls update exactly once; the SET list of the statement is
\* `name=:name` for each property other than aPrimaryKey, each once and in
\* their order, and the value bound to each is the property's value; the
\* statement ends with `where key = :key` and the value bound to the key is
\* aPrimaryValue, whatever value aData holds for aPrimaryKey.
C25_UpdateSetListAndKey ==
  UpdateIssued
  => LET others == OtherFields(db.args.aData, db.args.aPrimaryKey)
         sql == db.calls[1].sql
         fields == Items(SetList(sql))
         data == db.calls[1].data
         k == db.args.aPrimaryKey
     IN /\ Len(db.calls) = 1
        /\ db.calls[1].op = "update"
        /\ SubSeq(sql, 1, 3) = <<"update", db.args.aTable, "set">>
        /\ Len(fields) = 4 * Len(others)
        /\ Len(SetList(sql)) = 5 * Len(others) - 1
        /\ \A i \in 1 .. Len(others) :
             /\ SubSeq(fields, 4 * i - 3, 4 * i) = <<others[i].key, "=", ":", others[i].key>>
             /\ Has(data, others[i].key, others[i].value)
        /\ WherePart(sql) = <<"where", k, "=", ":", k>>
        /\ Has(data, k, db.args.aPrimaryValue)
        /\ Len(data) = Len(others) + 1

C25_Witness ==
  /\ UpdateIssued
  /\ db.pc = "idle"
  /\ db.args.aData = <<Prop("id", 5), Prop("name", 0), Prop("code", 5)>>
  /\ db.args.aPrimaryKey = "id"
  /\ db.args.aPrimaryValue = 9
  /\ db.calls[1].sql = <<"update", "tableA", "set", "name", "=", ":", "name", ",",
                         "code", "=", ":", "code", "where", "id", "=", ":", "id">>
  /\ db.calls[1].data = <<Prop("name", 0), Prop("code", 5), Prop("id", 9)>>

\* C26: insertObject called with an object that has no property other than
\* aPrimaryKey still calls insert, once, with a statement whose column list
\* and value list are empty and with no value bound.
C26_InsertWithoutColumns ==
  (db.op = "insertObject" /\ OnlyKey /\ db.pc # "called")
  => /\ Len(db.calls) = 1
     /\ db.calls[1].op = "insert"
     /\ db.calls[1].sql = <<"insert into", db.args.aTable, "(", ") values (", ")">>
     /\ ColumnList(db.calls[1].sql) = <<>>
     /\ ValueList(db.calls[1].sql) = <<>>
     /\ db.calls[1].data = <<>>

C26_Witness ==
  /\ db.op = "insertObject"
  /\ db.args.class = "UFDatabase"
  /\ db.args.aData = <<Prop("id", 5)>>
  /\ db.args.aPrimaryKey = "id"
  /\ db.pc = "idle"
  /\ db.calls = <<[op |-> "insert", sql |-> <<"insert into", "tableA", "(", ") values (", ")">>, data |-> <<>>]>>
  /\ db.answers = <<Ok(7)>>
  /\ db.aData = <<Prop("id", 7)>>

\* the latest call on the map was this method
LastCall(method) == db.op = "mapOfSet" /\ db.last.method = method

\* C27: after every sequence of add and remove no key of a UFMapOfSet maps
\* to an empty set: has(k) is true exactly when get(k) is not empty,
\* hasValue(k, v) exactly when v was added under k and not removed since,
\* isEmpty() exactly when no pair is stored; add of a pair the map has and
\* remove of a pair the map does not have leave the map as it was.
C27_NoEmptySet ==
  db.op = "mapOfSet"
  => /\ \A k \in DOMAIN db.m_map : Len(db.m_map[k]) > 0
     /\ \A k \in MapKeys : has(db.m_map, k) <=> Len(get(db.m_map, k)) > 0
     /\ \A k \in MapKeys, v \in MapValues : hasValue(db.m_map, k, v) <=> <<k, v>> \in db.stored
     /\ isEmpty(db.m_map) <=> db.stored = {}
     /\ (LastCall("add") /\ hasValue(db.last.before, db.last.aKey, db.last.aValue))
        => db.m_map = db.last.before
     /\ (LastCall("remove") /\ ~hasValue(db.last.before, db.last.aKey, db.last.aValue))
        => db.m_map = db.last.before

C27_Witness ==
  /\ LastCall("remove")
  /\ db.last.aKey = "keyA"
  /\ hasValue(db.last.before, "keyA", db.last.aValue)
  /\ ~has(db.m_map, "keyA")
  /\ get(db.m_map, "keyB") = <<2, 1>>
  /\ db.stored = {<<"keyB", 1>>, <<"keyB", 2>>}

\* C28: processSqlParameters with a callback that returns `:` followed by
\* the name it is passed returns the template it was passed, whatever the
\* template; and whatever the callback returns, the object passed as
\* aParameterValues has after the call the properties it had before.
C28_NamedCallbackIsIdentity ==
  SqlProcessed
  => /\ db.aCallback = "named" => db.outcome = [kind |-> "returned", value |-> db.aSql]
     /\ db.properties = db.aParameterValues

C28_Witness ==
  /\ SqlProcessed
  /\ db.aCallback = "named"
  /\ db.aSql = <<":", "a", " ", ":", "1">>
  /\ db.outcome.value = <<":", "a", " ", ":", "1">>
  /\ Len(db.calls) = 2
  /\ db.properties = <<Prop(<<"a">>, 1)>>

====
